---------------------------- MODULE Spec2Model ----------------------------
(***************************************************************************)
(* TrueSight Sprint 0 chart generators: generate_burndown.py and            *)
(* generate_burndown_charts.py.                                             *)
(*                                                                          *)
(* Each script is a linear batch program: it holds a fixed dataset,         *)
(* derives the ideal line with numpy.linspace, draws figures in memory and  *)
(* writes them with plt.savefig.  The model keeps the output directory,     *)
(* the files in it, the figure being drawn, the console, and the position   *)
(* of the running script.  Python floats are IEEE-754 binary64; they are    *)
(* modelled exactly, as sign * mantissa * 2^exp with the mantissa a         *)
(* little-endian bit sequence, and every float operation rounds to 53       *)
(* bits, nearest-even, as the hardware does.                                *)
(***************************************************************************)
EXTENDS Integers, Sequences, FiniteSets, TLC

(***************************************************************************)
(* Natural numbers of any size (a 53-bit mantissa and its products do not   *)
(* fit 32-bit integers): little-endian sequences of 15-bit limbs.           *)
(* The canonical form has no high zero limb; <<>> is 0.  Bits are numbered  *)
(* from 0.                                                                  *)
(***************************************************************************)
Base == 2^15

RECURSIVE BNNorm(_)
BNNorm(a) ==
    IF a = <<>> THEN <<>>
    ELSE IF a[Len(a)] = 0 THEN BNNorm(SubSeq(a, 1, Len(a) - 1))
    ELSE a

BNLimb(a, k) == IF k >= 1 /\ k <= Len(a) THEN a[k] ELSE 0

BNMaxLen(a, b) == IF Len(a) >= Len(b) THEN Len(a) ELSE Len(b)

RECURSIVE BNAddC(_, _, _, _, _)
BNAddC(a, b, k, n, c) ==
    IF k > n THEN (IF c = 0 THEN <<>> ELSE <<c>>)
    ELSE LET s == BNLimb(a, k) + BNLimb(b, k) + c
         IN  <<s % Base>> \o BNAddC(a, b, k + 1, n, s \div Base)

BNAdd(a, b) == BNNorm(BNAddC(a, b, 1, BNMaxLen(a, b), 0))

\* a - b for a >= b
RECURSIVE BNSubC(_, _, _, _, _)
BNSubC(a, b, k, n, c) ==
    IF k > n THEN <<>>
    ELSE LET s == BNLimb(a, k) - BNLimb(b, k) - c
         IN  <<s % Base>> \o BNSubC(a, b, k + 1, n, IF s < 0 THEN 1 ELSE 0)

BNSub(a, b) == BNNorm(BNSubC(a, b, 1, BNMaxLen(a, b), 0))

\* -1, 0, 1 as a < b, a = b, a > b; a and b canonical
RECURSIVE BNCmpFrom(_, _, _)
BNCmpFrom(a, b, k) ==
    IF k = 0 THEN 0
    ELSE IF a[k] > b[k] THEN 1
    ELSE IF a[k] < b[k] THEN -1
    ELSE BNCmpFrom(a, b, k - 1)

BNCmp(a, b) ==
    IF Len(a) > Len(b) THEN 1
    ELSE IF Len(a) < Len(b) THEN -1
    ELSE BNCmpFrom(a, b, Len(a))

\* a * 2^n
BNShl(a, n) ==
    LET q == n \div 15
        r == n % 15
    IN  BNNorm([j \in 1..(Len(a) + q + 1) |->
                   (BNLimb(a, j - q) % 2^(15 - r)) * 2^r
                   + BNLimb(a, j - q - 1) \div 2^(15 - r)])

\* a \div 2^n
BNShr(a, n) ==
    LET q == n \div 15
        r == n % 15
    IN  IF q >= Len(a) THEN <<>>
        ELSE BNNorm([j \in 1..(Len(a) - q) |->
                        BNLimb(a, j + q) \div 2^r
                        + (BNLimb(a, j + q + 1) % 2^r) * 2^(15 - r)])

BNBit(a, i) == (BNLimb(a, i \div 15 + 1) \div 2^(i % 15)) % 2

\* the number of bits of a canonical a
BNBitLen(a) ==
    IF a = <<>> THEN 0
    ELSE 15 * (Len(a) - 1)
         + (CHOOSE n \in 1..15 : 2^(n - 1) <= a[Len(a)] /\ a[Len(a)] < 2^n)

\* whether one of the bits 0..n-1 of a canonical a is set
BNAnyLow(a, n) == BNShl(BNShr(a, n), n) # a

\* a * m for 0 <= m < Base
RECURSIVE BNMulSmallC(_, _, _, _)
BNMulSmallC(a, m, k, c) ==
    IF k > Len(a) THEN (IF c = 0 THEN <<>> ELSE <<c>>)
    ELSE LET p == a[k] * m + c
         IN  <<p % Base>> \o BNMulSmallC(a, m, k + 1, p \div Base)

BNMulSmall(a, m) == BNNorm(BNMulSmallC(a, m, 1, 0))

RECURSIVE BNMulFrom(_, _, _)
BNMulFrom(a, b, k) ==
    IF k > Len(b) THEN <<>>
    ELSE BNAdd(BNShl(BNMulSmall(a, b[k]), 15 * (k - 1)), BNMulFrom(a, b, k + 1))

BNMul(a, b) == BNMulFrom(a, b, 1)

RECURSIVE BNOfInt(_)
BNOfInt(n) == IF n = 0 THEN <<>> ELSE <<n % Base>> \o BNOfInt(n \div Base)

\* for a below 2^31
RECURSIVE BNToInt(_)
BNToInt(a) == IF a = <<>> THEN 0 ELSE a[1] + Base * BNToInt(Tail(a))

\* a divided by d, 0 < d < Base: short division from the top limb
RECURSIVE BNDivFrom(_, _, _, _, _)
BNDivFrom(a, d, k, r, q) ==
    IF k = 0 THEN [quot |-> BNNorm(q), rem |-> r]
    ELSE BNDivFrom(a, d, k - 1, (r * Base + a[k]) % d,
                   <<(r * Base + a[k]) \div d>> \o q)

BNDivSmall(a, d) == BNDivFrom(a, d, Len(a), 0, <<>>)

(***************************************************************************)
(* A Python float: sign * man * 2^exp with man a natural number as above.   *)
(* The canonical form has man odd (or <<>> for zero), so two floats are     *)
(* equal exactly when their records are.  The values of these programs are  *)
(* far from the subnormal and overflow ranges, which are not modelled.      *)
(***************************************************************************)
FZero == [sign |-> 0, man |-> <<>>, exp |-> 0]

\* the number of low zero bits of mag # <<>>
BNLowZeros(mag) ==
    CHOOSE i \in 0..(BNBitLen(mag) - 1) :
        BNBit(mag, i) = 1 /\ \A j \in 0..(i - 1) : BNBit(mag, j) = 0

FCanon(sign, mag, exp) ==
    IF mag = <<>> THEN FZero
    ELSE [sign |-> sign,
          man  |-> BNShr(mag, BNLowZeros(mag)),
          exp  |-> exp + BNLowZeros(mag)]

\* the number of mantissa bits of a binary64
Precision == 53

\* mag * 2^exp rounded to Precision bits, ties to even
Round53(sign, mag, exp) ==
    IF BNBitLen(mag) <= Precision THEN FCanon(sign, mag, exp)
    ELSE LET d    == BNBitLen(mag) - Precision
             kept == BNShr(mag, d)
             up   == BNBit(mag, d - 1) = 1
                     /\ (BNAnyLow(mag, d - 1) \/ BNBit(kept, 0) = 1)
         IN  FCanon(sign, IF up THEN BNAdd(kept, <<1>>) ELSE kept, exp + d)

FOfInt(n) == IF n < 0 THEN FCanon(1, BNOfInt(-n), 0) ELSE FCanon(0, BNOfInt(n), 0)

FMinExp(x, y) == IF x.exp <= y.exp THEN x.exp ELSE y.exp

FAdd(x, y) ==
    IF x.man = <<>> THEN y
    ELSE IF y.man = <<>> THEN x
    ELSE LET e  == FMinExp(x, y)
             mx == BNShl(x.man, x.exp - e)
             my == BNShl(y.man, y.exp - e)
             c  == BNCmp(mx, my)
         IN  IF x.sign = y.sign THEN Round53(x.sign, BNAdd(mx, my), e)
             ELSE IF c = 0 THEN FZero
             ELSE IF c > 0 THEN Round53(x.sign, BNSub(mx, my), e)
             ELSE Round53(y.sign, BNSub(my, mx), e)

FNeg(x) == IF x.man = <<>> THEN x ELSE [x EXCEPT !.sign = 1 - x.sign]

FSub(x, y) == FAdd(x, FNeg(y))

FMul(x, y) ==
    IF x.man = <<>> \/ y.man = <<>> THEN FZero
    ELSE Round53((x.sign + y.sign) % 2, BNMul(x.man, y.man), x.exp + y.exp)

\* x / y for y # 0 with a mantissa below Base (every divisor of these
\* programs is a small integer): the quotient to more than Precision + 2
\* bits, with a sticky low bit for a remainder, then rounded once
FDiv(x, y) ==
    IF x.man = <<>> THEN FZero
    ELSE LET k == Precision + 3 + 15
             d == BNDivSmall(BNShl(x.man, k), y.man[1])
         IN  Round53((x.sign + y.sign) % 2,
                     BNAdd(BNShl(d.quot, 1), IF d.rem = 0 THEN <<>> ELSE <<1>>),
                     x.exp - y.exp - k - 1)

\* -1, 0, 1 as x < y, x = y, x > y
FCmp(x, y) ==
    LET d == FSub(x, y)
    IN  IF d.man = <<>> THEN 0 ELSE IF d.sign = 1 THEN -1 ELSE 1

\* |x| * 100 rounded to an integer, ties to even: the digits f"{x:.2f}" prints
Hundredths(x) ==
    LET n == BNMul(x.man, BNOfInt(100))
    IN  IF x.exp >= 0 THEN BNToInt(BNShl(n, x.exp))
        ELSE LET d    == -x.exp
                 kept == BNShr(n, d)
                 up   == BNBit(n, d - 1) = 1
                         /\ (BNAnyLow(n, d - 1) \/ BNBit(kept, 0) = 1)
             IN  BNToInt(IF up THEN BNAdd(kept, <<1>>) ELSE kept)

\* f"{x:.2f}": sign, digits before the point, the two digits after it
Format2f(x) ==
    LET h == Hundredths(x)
    IN  [neg |-> x.sign = 1 /\ h # 0, whole |-> h \div 100, frac |-> h % 100]

\* linspace without its endpoint: the step taken as (stop - start) / num
linspace_endpoint_false(start, stop, num) ==
    LET delta == FSub(FOfInt(stop), FOfInt(start))
        step  == FDiv(delta, FOfInt(num))
    IN  [i \in 1..num |-> FAdd(FMul(FOfInt(i - 1), step), FOfInt(start))]

(***************************************************************************)
(* numpy.linspace(start, stop, num) with endpoint=True, for integers start  *)
(* and stop and num >= 1: arange(0, num) * step + start with                *)
(* step = (stop - start) / (num - 1), then the last sample set to stop.     *)
(***************************************************************************)
linspace(start, stop, num) ==
    LET div   == num - 1
        delta == FSub(FOfInt(stop), FOfInt(start))
        step  == IF div > 0 THEN FDiv(delta, FOfInt(div)) ELSE FZero
        y(i)  == IF div > 0 /\ step # FZero
                 THEN FAdd(FMul(FOfInt(i), step), FOfInt(start))
                 ELSE IF div > 0
                 THEN FAdd(FMul(FDiv(FOfInt(i), FOfInt(div)), delta), FOfInt(start))
                 ELSE FAdd(FMul(FOfInt(i), delta), FOfInt(start))
    IN  [i \in 1..num |-> IF num > 1 /\ i = num THEN FOfInt(stop) ELSE y(i - 1)]

(***************************************************************************)
(* Dates.  A date string is the sequence of its characters;                 *)
(* datetime.strptime(d, "%Y-%m-%d") reads the year, month and day digits.   *)
(* A datetime at midnight is [year, month, day]; the difference of two      *)
(* datetimes in days is the difference of their proleptic Gregorian         *)
(* ordinals, as datetime computes it.                                       *)
(***************************************************************************)
Digit ==
    "0" :> 0 @@ "1" :> 1 @@ "2" :> 2 @@ "3" :> 3 @@ "4" :> 4 @@
    "5" :> 5 @@ "6" :> 6 @@ "7" :> 7 @@ "8" :> 8 @@ "9" :> 9

\* the strings these programs parse are zero-padded: 4, 2 and 2 digits
strptime(d) ==
    [year  |-> 1000 * Digit[d[1]] + 100 * Digit[d[2]] + 10 * Digit[d[3]] + Digit[d[4]],
     month |-> 10 * Digit[d[6]] + Digit[d[7]],
     day   |-> 10 * Digit[d[9]] + Digit[d[10]]]

is_leap(y) == y % 4 = 0 /\ (y % 100 # 0 \/ y % 400 = 0)

days_before_year(y) ==
    (y - 1) * 365 + (y - 1) \div 4 - (y - 1) \div 100 + (y - 1) \div 400

DAYS_BEFORE_MONTH == <<0, 31, 59, 90, 120, 151, 181, 212, 243, 273, 304, 334>>

days_before_month(y, m) ==
    DAYS_BEFORE_MONTH[m] + (IF m > 2 /\ is_leap(y) THEN 1 ELSE 0)

toordinal(dt) ==
    days_before_year(dt.year) + days_before_month(dt.year, dt.month) + dt.day

\* (a - b).days
days_between(a, b) == toordinal(a) - toordinal(b)

\* Monday is 0, Sunday is 6
weekday(dt) == (toordinal(dt) + 6) % 7

\* seq[i] as Python indexes it: from 0, and from the end for i < 0
PyIndex(seq, i) == IF i >= 0 THEN seq[i + 1] ELSE seq[Len(seq) + i + 1]

(***************************************************************************)
(* generate_burndown_charts.py: the module-level data.                      *)
(***************************************************************************)
dates_str ==
    << <<"2", "0", "2", "6", "-", "0", "2", "-", "0", "4">>,
       <<"2", "0", "2", "6", "-", "0", "2", "-", "0", "5">>,
       <<"2", "0", "2", "6", "-", "0", "2", "-", "0", "6">>,
       <<"2", "0", "2", "6", "-", "0", "2", "-", "0", "7">>,
       <<"2", "0", "2", "6", "-", "0", "2", "-", "0", "8">>,
       <<"2", "0", "2", "6", "-", "0", "2", "-", "0", "9">>,
       <<"2", "0", "2", "6", "-", "0", "2", "-", "1", "0">>,
       <<"2", "0", "2", "6", "-", "0", "2", "-", "1", "1">>,
       <<"2", "0", "2", "6", "-", "0", "2", "-", "1", "2">>,
       <<"2", "0", "2", "6", "-", "0", "2", "-", "1", "3">>,
       <<"2", "0", "2", "6", "-", "0", "2", "-", "1", "4">>,
       <<"2", "0", "2", "6", "-", "0", "2", "-", "1", "5">>,
       <<"2", "0", "2", "6", "-", "0", "2", "-", "1", "6">>,
       <<"2", "0", "2", "6", "-", "0", "2", "-", "1", "7">>,
       <<"2", "0", "2", "6", "-", "0", "2", "-", "1", "8">> >>

\* a task reopened on the 13th date
actual_remaining_reopened == <<4, 3, 3, 3, 3, 3, 2, 2, 1, 1, 1, 0, 1, 0, 0>>

actual_remaining == <<4, 3, 3, 3, 3, 3, 2, 2, 1, 1, 1, 0, 0, 0, 0>>

dates == [i \in 1..Len(dates_str) |-> strptime(dates_str[i])]

ideal_remaining == linspace(4, 0, Len(dates))

sprint_start == PyIndex(dates, 0)

sprint_end == PyIndex(dates, -1)

\* the date after the completion
completion_date_late == PyIndex(dates, 12)

completion_date == PyIndex(dates, 11)

total_tasks == 4

completed_tasks == 4

\* the rate of three tasks of four
completion_rate_stale == 75

completion_rate == 100

\* the difference of the dates, not counting the first day
sprint_days_exclusive == days_between(sprint_end, sprint_start)

sprint_days == days_between(sprint_end, sprint_start) + 1

velocity == FDiv(FOfInt(total_tasks), FOfInt(sprint_days))

\* a slip of the index by one
completion_index_late == 12

\* in create_enhanced_burndown
completion_index == 11

(***************************************************************************)
(* generate_burndown.py: the data local to create_sprint0_burndown and      *)
(* create_velocity_chart.                                                   *)
(***************************************************************************)
\* a date typed twice: 2026-02-12 in the place of 2026-02-11
sprint0_dates_str_typo ==
    << <<"2", "0", "2", "6", "-", "0", "2", "-", "0", "4">>,
       <<"2", "0", "2", "6", "-", "0", "2", "-", "0", "5">>,
       <<"2", "0", "2", "6", "-", "0", "2", "-", "0", "6">>,
       <<"2", "0", "2", "6", "-", "0", "2", "-", "0", "7">>,
       <<"2", "0", "2", "6", "-", "0", "2", "-", "0", "8">>,
       <<"2", "0", "2", "6", "-", "0", "2", "-", "0", "9">>,
       <<"2", "0", "2", "6", "-", "0", "2", "-", "1", "0">>,
       <<"2", "0", "2", "6", "-", "0", "2", "-", "1", "2">>,
       <<"2", "0", "2", "6", "-", "0", "2", "-", "1", "2">>,
       <<"2", "0", "2", "6", "-", "0", "2", "-", "1", "3">>,
       <<"2", "0", "2", "6", "-", "0", "2", "-", "1", "4">>,
       <<"2", "0", "2", "6", "-", "0", "2", "-", "1", "5">>,
       <<"2", "0", "2", "6", "-", "0", "2", "-", "1", "6">>,
       <<"2", "0", "2", "6", "-", "0", "2", "-", "1", "7">>,
       <<"2", "0", "2", "6", "-", "0", "2", "-", "1", "8">> >>

sprint0_dates_str ==
    << <<"2", "0", "2", "6", "-", "0", "2", "-", "0", "4">>,
       <<"2", "0", "2", "6", "-", "0", "2", "-", "0", "5">>,
       <<"2", "0", "2", "6", "-", "0", "2", "-", "0", "6">>,
       <<"2", "0", "2", "6", "-", "0", "2", "-", "0", "7">>,
       <<"2", "0", "2", "6", "-", "0", "2", "-", "0", "8">>,
       <<"2", "0", "2", "6", "-", "0", "2", "-", "0", "9">>,
       <<"2", "0", "2", "6", "-", "0", "2", "-", "1", "0">>,
       <<"2", "0", "2", "6", "-", "0", "2", "-", "1", "1">>,
       <<"2", "0", "2", "6", "-", "0", "2", "-", "1", "2">>,
       <<"2", "0", "2", "6", "-", "0", "2", "-", "1", "3">>,
       <<"2", "0", "2", "6", "-", "0", "2", "-", "1", "4">>,
       <<"2", "0", "2", "6", "-", "0", "2", "-", "1", "5">>,
       <<"2", "0", "2", "6", "-", "0", "2", "-", "1", "6">>,
       <<"2", "0", "2", "6", "-", "0", "2", "-", "1", "7">>,
       <<"2", "0", "2", "6", "-", "0", "2", "-", "1", "8">> >>

sprint0_actual_remaining == <<4, 3, 3, 3, 3, 3, 2, 2, 1, 1, 1, 0, 0, 0, 0>>

sprint0_dates == [i \in 1..Len(sprint0_dates_str) |-> strptime(sprint0_dates_str[i])]

ideal_burndown == linspace(4, 0, Len(sprint0_dates))

sprint0_completion_date == PyIndex(sprint0_dates, 11)

tasks == <<4>>

(***************************************************************************)
(* What a title, a text box, a bar label or a console line reports: each    *)
(* field is <<>> when the text does not show it, <<v>> when it shows v.     *)
(***************************************************************************)
NoReport ==
    [velocity |-> <<>>, completed |-> <<>>, total |-> <<>>, rate |-> <<>>,
     days_early |-> <<>>, dates |-> <<>>]

Msg(text) == [text |-> text, report |-> NoReport]

\* the dates written out in the titles: 04/02/2026, 18/02/2026 and 15/02/2026
TitleStart == [year |-> 2026, month |-> 2, day |-> 4]

TitleEnd == [year |-> 2026, month |-> 2, day |-> 18]

LegendCompleted == [year |-> 2026, month |-> 2, day |-> 15]

(***************************************************************************)
(* A matplotlib figure: what the drawing calls put on the canvas.           *)
(***************************************************************************)
NoFig ==
    [chart |-> "none", dpi |-> 0, x |-> <<>>, ideal |-> <<>>, actual |-> <<>>,
     weekend |-> {}, markers |-> <<>>, vlines |-> <<>>, legend |-> <<>>,
     title |-> NoReport, box |-> NoReport, bars |-> <<>>, labels |-> <<>>]

\* generate_burndown.py, create_sprint0_burndown: the drawing calls
sprint0_figure ==
    [NoFig EXCEPT
        !.chart   = "sprint0_burndown",
        !.dpi     = 150,
        !.x       = sprint0_dates,
        !.ideal   = ideal_burndown,
        !.actual  = sprint0_actual_remaining,
        !.vlines  = <<sprint0_completion_date>>,
        !.markers = <<[x |-> sprint0_completion_date, y |-> 0]>>,
        !.legend  = <<LegendCompleted>>,
        !.title   = [NoReport EXCEPT !.dates = <<TitleStart, TitleEnd>>,
                                     !.completed = <<4>>, !.total = <<4>>,
                                     !.rate = <<100>>, !.days_early = <<3>>],
        !.box     = [NoReport EXCEPT !.rate = <<100>>, !.completed = <<4>>,
                                     !.total = <<4>>, !.days_early = <<3>>]]

\* generate_burndown.py, create_velocity_chart: the drawing calls
velocity_figure ==
    [NoFig EXCEPT
        !.chart  = "velocity_sprint0",
        !.dpi    = 150,
        !.bars   = tasks,
        !.labels = [i \in 1..Len(tasks) |->
                       [NoReport EXCEPT !.completed = <<tasks[i]>>, !.rate = <<100>>]]]

\* generate_burndown_charts.py, create_standard_burndown: the drawing calls
standard_figure ==
    [NoFig EXCEPT
        !.chart  = "sprint0_burndown",
        !.dpi    = 300,
        !.x      = dates,
        !.ideal  = ideal_remaining,
        !.actual = actual_remaining,
        !.title  = [NoReport EXCEPT !.dates = <<TitleStart, TitleEnd>>]]

\* generate_burndown_charts.py, create_enhanced_burndown: the drawing calls
enhanced_figure ==
    [NoFig EXCEPT
        !.chart   = "sprint0_burndown_enhanced",
        !.dpi     = 300,
        !.weekend = {dates[i] : i \in {j \in 1..Len(dates) : weekday(dates[j]) \in {5, 6}}},
        !.x       = dates,
        !.ideal   = ideal_remaining,
        !.actual  = actual_remaining,
        !.markers = <<[x |-> PyIndex(dates, completion_index),
                       y |-> PyIndex(actual_remaining, completion_index)]>>,
        !.vlines  = <<PyIndex(dates, completion_index)>>,
        !.box     = [NoReport EXCEPT !.rate = <<100>>, !.completed = <<4>>,
                                     !.total = <<4>>],
        !.title   = [NoReport EXCEPT !.dates = <<TitleStart, TitleEnd>>,
                                     !.velocity = <<Format2f(velocity)>>,
                                     !.completed = <<completed_tasks>>,
                                     !.total = <<total_tasks>>,
                                     !.rate = <<completion_rate>>]]

(***************************************************************************)
(* The programs: each function body is the sequence of its effects, in      *)
(* source order.                                                            *)
(***************************************************************************)
NoStep == [op |-> "none", lines |-> <<>>, fig |-> NoFig, path |-> "", format |-> "", dpi |-> 0]

StyleUse == [NoStep EXCEPT !.op = "style"]

Draw(f) == [NoStep EXCEPT !.op = "plot", !.fig = f]

SavePng(p) == [NoStep EXCEPT !.op = "savefig", !.path = p, !.format = "png", !.dpi = 300]

SavePdf(p) == [NoStep EXCEPT !.op = "savefig", !.path = p, !.format = "pdf"]

ClosePlot == [NoStep EXCEPT !.op = "close"]

PrintLines(ls) == [NoStep EXCEPT !.op = "print", !.lines = ls]

BurndownPng == "docs/images/charts/sprint0_burndown.png"

BurndownPdf == "docs/images/charts/sprint0_burndown.pdf"

VelocityPng == "docs/images/charts/velocity_sprint0.png"

VelocityPdf == "docs/images/charts/velocity_sprint0.pdf"

EnhancedPng == "docs/images/charts/sprint0_burndown_enhanced.png"

EnhancedPdf == "docs/images/charts/sprint0_burndown_enhanced.pdf"

Paths == {BurndownPng, BurndownPdf, VelocityPng, VelocityPdf, EnhancedPng, EnhancedPdf}

\* generate_burndown.py
create_sprint0_burndown ==
    << Draw(sprint0_figure),
       SavePng(BurndownPng),
       SavePdf(BurndownPdf),
       PrintLines(<< Msg("Sprint 0 burndown chart created successfully!"),
                     Msg("docs/images/charts/sprint0_burndown.png (300 DPI)"),
                     Msg("docs/images/charts/sprint0_burndown.pdf") >>),
       ClosePlot >>

\* the velocity chart without its PDF
create_velocity_chart_png_only ==
    << Draw(velocity_figure),
       SavePng(VelocityPng),
       PrintLines(<< Msg("Velocity chart created successfully!"),
                     Msg("docs/images/charts/velocity_sprint0.png (300 DPI)"),
                     Msg("docs/images/charts/velocity_sprint0.pdf") >>),
       ClosePlot >>

create_velocity_chart ==
    << Draw(velocity_figure),
       SavePng(VelocityPng),
       SavePdf(VelocityPdf),
       PrintLines(<< Msg("Velocity chart created successfully!"),
                     Msg("docs/images/charts/velocity_sprint0.png (300 DPI)"),
                     Msg("docs/images/charts/velocity_sprint0.pdf") >>),
       ClosePlot >>

\* the module body (plt.style.use at import) and the __main__ block
generate_burndown ==
    << StyleUse,
       PrintLines(<< Msg("TrueSight Sprint 0 Burndown Chart Generator") >>) >>
    \o create_sprint0_burndown
    \o create_velocity_chart
    \o << PrintLines(<< Msg("All charts generated successfully!"),
                        Msg("Next steps:"),
                        Msg("1. Charts saved to: docs/images/charts/"),
                        Msg("2. Commit to repository"),
                        Msg("3. Charts will display in Wiki automatically") >>) >>

\* generate_burndown_charts.py
create_standard_burndown ==
    << StyleUse,
       Draw(standard_figure),
       SavePng(BurndownPng),
       SavePdf(BurndownPdf),
       ClosePlot,
       PrintLines(<< Msg("Standard burndown chart created:"),
                     Msg("docs/images/charts/sprint0_burndown.png (300 DPI)"),
                     Msg("docs/images/charts/sprint0_burndown.pdf") >>) >>

create_enhanced_burndown ==
    << StyleUse,
       Draw(enhanced_figure),
       SavePng(EnhancedPng),
       SavePdf(EnhancedPdf),
       ClosePlot,
       PrintLines(<< Msg("Enhanced burndown chart created:"),
                     Msg("docs/images/charts/sprint0_burndown_enhanced.png (300 DPI)"),
                     Msg("docs/images/charts/sprint0_burndown_enhanced.pdf") >>) >>

main ==
    << PrintLines(<<
         Msg("TrueSight Sprint 0 Burndown Chart Generator"),
         [text |-> "Sprint Period:",
          report |-> [NoReport EXCEPT !.dates = <<sprint_start, sprint_end>>]],
         [text |-> "Completion Date: (3 days early)",
          report |-> [NoReport EXCEPT !.dates = <<completion_date>>,
                                      !.days_early = <<3>>]],
         [text |-> "Total Tasks:",
          report |-> [NoReport EXCEPT !.total = <<total_tasks>>]],
         [text |-> "Velocity: tasks/day",
          report |-> [NoReport EXCEPT !.velocity = <<Format2f(velocity)>>]],
         [text |-> "Completion Rate: %",
          report |-> [NoReport EXCEPT !.rate = <<completion_rate>>]],
         Msg("Generating charts...") >>) >>
    \o create_standard_burndown
    \o create_enhanced_burndown
    \o << PrintLines(<< Msg("All charts generated successfully!") >>) >>

Scripts == {"generate_burndown.py", "generate_burndown_charts.py"}

Program(s) == IF s = "generate_burndown.py" THEN generate_burndown ELSE main

(***************************************************************************)
(* The state.  One script runs at a time, to its end or to the exception    *)
(* that ends it; the output directory is the environment's.                 *)
(***************************************************************************)
VARIABLES
    script,     \* the script running, or the one that ran last
    status,     \* "idle", "running", "done" (exit 0) or "failed" (uncaught exception)
    todo,       \* the effects the running script has still to make, in order
    run,        \* the number of runs started
    figure,     \* matplotlib's current figure
    console,    \* the lines this run has printed
    files,      \* path -> the contents of the file there: {} when there is none
    dir,        \* docs/images/charts: "ok", "missing" or "readonly"
    style,      \* whether matplotlib has the style 'seaborn-v0_8-darkgrid'
    written,    \* history: the paths this run has saved
    lastSave,   \* history: path -> the script and run of the last save there
    produced    \* history: every (script, run, path, figure) ever saved

vars == <<script, status, todo, run, figure, console, files, dir, style,
          written, lastSave, produced>>

\* the number of runs a behaviour starts
MaxRuns == 2

Init ==
    /\ script = "none"
    /\ status = "idle"
    /\ todo = <<>>
    /\ run = 0
    /\ figure = NoFig
    /\ console = <<>>
    /\ files = [p \in Paths |-> {}]
    /\ dir \in {"ok", "missing", "readonly"}
    /\ style \in BOOLEAN
    /\ written = {}
    /\ lastSave = [p \in Paths |-> [script |-> "none", run |-> 0]]
    /\ produced = {}

Running == status = "running" /\ todo # <<>>

Cur == Head(todo)

\* python3 <script>: a fresh process
Start(s) ==
    /\ status # "running"
    /\ run < MaxRuns
    /\ script' = s
    /\ status' = "running"
    /\ todo' = Program(s)
    /\ run' = run + 1
    /\ figure' = NoFig
    /\ console' = <<>>
    /\ written' = {}
    /\ UNCHANGED <<files, dir, style, lastSave, produced>>

\* plt.style.use('seaborn-v0_8-darkgrid')
UseStyle ==
    /\ Running /\ Cur.op = "style"
    /\ style
    /\ todo' = Tail(todo)
    /\ UNCHANGED <<script, status, run, figure, console, files, dir, style,
                   written, lastSave, produced>>

\* the style is not in the library: OSError, uncaught
UseStyleFail ==
    /\ Running /\ Cur.op = "style"
    /\ ~style
    /\ status' = "failed"
    /\ UNCHANGED <<script, todo, run, figure, console, files, dir, style,
                   written, lastSave, produced>>

\* plt.subplots(...) to plt.tight_layout(): the figure is drawn in memory
Plot ==
    /\ Running /\ Cur.op = "plot"
    /\ figure' = Cur.fig
    /\ todo' = Tail(todo)
    /\ UNCHANGED <<script, status, run, console, files, dir, style,
                   written, lastSave, produced>>

\* what plt.savefig writes: the current figure, in the format asked for
Rendered ==
    [by |-> script, run |-> run, format |-> Cur.format,
     dpi |-> IF Cur.dpi # 0 THEN Cur.dpi ELSE figure.dpi, fig |-> figure]

\* a save that leaves an existing file as it is
savefig_keep_existing(fs, path, content) ==
    IF fs[path] # {} THEN fs ELSE [fs EXCEPT ![path] = {content}]

\* plt.savefig(path, ...) opens the file for writing and replaces its content
savefig(fs, path, content) == [fs EXCEPT ![path] = {content}]

\* the open succeeds in a writable directory, and on an existing file of a
\* read-only directory when the file itself is writable
SaveFig ==
    /\ Running /\ Cur.op = "savefig"
    /\ dir = "ok" \/ (dir = "readonly" /\ files[Cur.path] # {})
    /\ files' = savefig(files, Cur.path, Rendered)
    /\ todo' = Tail(todo)
    /\ written' = written \cup {Cur.path}
    /\ lastSave' = [lastSave EXCEPT ![Cur.path] = [script |-> script, run |-> run]]
    /\ produced' = produced \cup {[script |-> script, run |-> run, path |-> Cur.path,
                                      fig |-> figure]}
    /\ UNCHANGED <<script, status, run, figure, console, dir, style>>

\* the exception caught and passed over: the script goes on
SaveFigFail_swallowed ==
    /\ Running /\ Cur.op = "savefig"
    /\ dir # "ok"
    /\ todo' = Tail(todo)
    /\ UNCHANGED <<script, status, run, figure, console, files, dir, style,
                   written, lastSave, produced>>

\* FileNotFoundError or PermissionError out of plt.savefig: nothing catches
\* it, the process ends with a traceback
SaveFigFail ==
    /\ Running /\ Cur.op = "savefig"
    /\ dir # "ok"
    /\ status' = "failed"
    /\ UNCHANGED <<script, todo, run, figure, console, files, dir, style,
                   written, lastSave, produced>>

\* plt.close()
Close ==
    /\ Running /\ Cur.op = "close"
    /\ figure' = NoFig
    /\ todo' = Tail(todo)
    /\ UNCHANGED <<script, status, run, console, files, dir, style,
                   written, lastSave, produced>>

\* print(...)
ConsolePrint ==
    /\ Running /\ Cur.op = "print"
    /\ console' = console \o Cur.lines
    /\ todo' = Tail(todo)
    /\ UNCHANGED <<script, status, run, figure, files, dir, style,
                   written, lastSave, produced>>

\* the end of the script: exit status 0
Exit ==
    /\ status = "running" /\ todo = <<>>
    /\ status' = "done"
    /\ UNCHANGED <<script, todo, run, figure, console, files, dir, style,
                   written, lastSave, produced>>

\* the environment: mkdir -p docs/images/charts
Mkdir ==
    /\ dir = "missing"
    /\ dir' = "ok"
    /\ UNCHANGED <<script, status, todo, run, figure, console, files, style,
                   written, lastSave, produced>>

\* the environment: chmod of docs/images/charts
Chmod ==
    /\ dir \in {"ok", "readonly"}
    /\ dir' = IF dir = "ok" THEN "readonly" ELSE "ok"
    /\ UNCHANGED <<script, status, todo, run, figure, console, files, style,
                   written, lastSave, produced>>

Next ==
    \/ \E s \in Scripts : Start(s)
    \/ UseStyle
    \/ UseStyleFail
    \/ Plot
    \/ SaveFig
    \/ SaveFigFail
    \/ Close
    \/ ConsolePrint
    \/ Exit
    \/ Mkdir
    \/ Chmod

Spec == Init /\ [][Next]_vars

(***************************************************************************)
(* What the claims read from a state.                                       *)
(***************************************************************************)
\* every file now on disk
Stored == UNION {files[p] : p \in Paths}

\* every figure drawn and still in memory or on disk, with the script that drew it
Drawn ==
    {[by |-> script, fig |-> figure] : z \in {w \in {0} : figure # NoFig}}
    \cup {[by |-> c.by, fig |-> c.fig] : c \in Stored}

\* every title, text box and bar label of a drawn figure, and every console
\* line, with the script and the dataset it reports on
Reports ==
    {[by |-> d.by, actual |-> d.fig.actual, x |-> d.fig.x, report |-> d.fig.title] : d \in Drawn}
    \cup {[by |-> d.by, actual |-> d.fig.actual, x |-> d.fig.x, report |-> d.fig.box] : d \in Drawn}
    \cup UNION {{[by |-> d.by, actual |-> d.fig.actual, x |-> d.fig.x, report |-> d.fig.labels[i]]
                   : i \in 1..Len(d.fig.labels)} : d \in Drawn}
    \cup {[by |-> script, actual |-> <<>>, x |-> <<>>, report |-> console[i].report]
            : i \in 1..Len(console)}

\* the dataset a script holds
DatasetOf(s) ==
    IF s = "generate_burndown.py"
    THEN [x |-> sprint0_dates, actual |-> sprint0_actual_remaining]
    ELSE [x |-> dates, actual |-> actual_remaining]

Feb15 == [year |-> 2026, month |-> 2, day |-> 15]

\* i (from 0) is the first index at which a is 0
IsFirstZero(a, i) ==
    /\ i + 1 \in 1..Len(a)
    /\ a[i + 1] = 0
    /\ \A j \in 1..i : a[j] > 0

(***************************************************************************)
(* C1.  The completion index both scripts use, 11, is the first index at    *)
(* which actual_remaining is 0: every star marker and every vertical line   *)
(* drawn is at the 12th date, 2026-02-15, the marker at y = 0, and the      *)
(* completion date printed on the console is that date.                     *)
(***************************************************************************)
C1_CompletionIsFirstZero ==
    /\ \A d \in Drawn :
         d.fig.markers # <<>> =>
           /\ IsFirstZero(d.fig.actual, 11)
           /\ PyIndex(d.fig.x, 11) = Feb15
           /\ \A k \in 1..Len(d.fig.markers) :
                d.fig.markers[k] = [x |-> PyIndex(d.fig.x, 11), y |-> 0]
           /\ Len(d.fig.vlines) = 1
           /\ \A k \in 1..Len(d.fig.vlines) : d.fig.vlines[k] = PyIndex(d.fig.x, 11)
    /\ \A i \in 1..Len(console) :
         console[i].text = "Completion Date: (3 days early)" =>
           /\ console[i].report.dates = <<Feb15>>
           /\ IsFirstZero(DatasetOf(script).actual, 11)
           /\ PyIndex(DatasetOf(script).x, 11) = Feb15

\* the marked chart of each script is on disk: the enhanced chart of
\* generate_burndown_charts.py and the burndown chart of generate_burndown.py
C1_Witness ==
    /\ \E c \in files[EnhancedPng] : c.fig.markers # <<>> /\ c.fig.vlines # <<>>
    /\ \E c \in files[BurndownPdf] : c.by = "generate_burndown.py" /\ c.fig.markers # <<>>

(***************************************************************************)
(* C2.  The ideal series.  A float x >= 0 is within 2^-t of c/14, times 14: *)
(* |14 * x - c| <= 2^-t, computed exactly on the mantissas.                 *)
(***************************************************************************)
MinInt(a, b) == IF a <= b THEN a ELSE b

AbsDiff(a, b) == IF BNCmp(a, b) >= 0 THEN BNSub(a, b) ELSE BNSub(b, a)

Within14(x, c, t) ==
    /\ x.sign = 0
    /\ LET e == MinInt(x.exp, -t)
       IN  BNCmp(AbsDiff(BNMulSmall(BNShl(x.man, x.exp - e), 14),
                         BNShl(BNOfInt(c), -e)),
                 BNShl(<<1>>, -t - e)) <= 0

\* every figure that holds an ideal line
WithIdeal == {d \in Drawn : d.fig.ideal # <<>>}

\* the ideal series they hold
IdealSeries == {d.fig.ideal : d \in WithIdeal}

(* C2 as stated: 15 points, from 4 to 0, and ideal[i] * 14 == 4 * (14 - i)  *)
(* for every index i, the product and the comparison being Python's, on     *)
(* floats.                                                                  *)
C2_ExactStep ==
    /\ \A d \in WithIdeal : Len(d.fig.ideal) = Len(d.fig.x) /\ Len(d.fig.ideal) = 15
    /\ \A y \in IdealSeries :
        /\ PyIndex(y, 0) = FOfInt(4)
        /\ PyIndex(y, -1) = FOfInt(0)
        /\ \A i \in 0..14 : FMul(PyIndex(y, i), FOfInt(14)) = FOfInt(4 * (14 - i))

(* C2, amended: the ideal series has as many points as there are dates      *)
(* (15), its first value is exactly 4, its last exactly 0, it is strictly   *)
(* decreasing, and it is linear up to the rounding of float64:              *)
(* |ideal[i] * 14 - 4 * (14 - i)| <= 2^-47 for every index i in 0..14.      *)
C2_LinearUpToRounding ==
    /\ \A d \in WithIdeal :
        /\ Len(d.fig.ideal) = Len(d.fig.x)
        /\ Len(d.fig.ideal) = Len(d.fig.actual)
        /\ Len(d.fig.ideal) = 15
    /\ \A y \in IdealSeries :
        /\ PyIndex(y, 0) = FOfInt(4)
        /\ PyIndex(y, -1) = FOfInt(0)
        /\ \A i \in 0..14 : Within14(PyIndex(y, i), 4 * (14 - i), 47)
        /\ \A i \in 0..13 : FCmp(PyIndex(y, i + 1), PyIndex(y, i)) < 0

\* both scripts have drawn their ideal line, and one of them has saved it
C2_Witness ==
    /\ \E d \in WithIdeal : d.by = "generate_burndown.py"
    /\ \E d \in WithIdeal : d.by = "generate_burndown_charts.py"
    /\ \E c \in Stored : c.fig.ideal # <<>>

(***************************************************************************)
(* C3.  Velocity is total tasks over the days spanned, the days spanned     *)
(* being the inclusive count from the first date to the last, which is the  *)
(* number of dates, 15; for 4 tasks it is the float64 quotient 4 / 15       *)
(* (within 2^-51 of 4/15, times 15), and the console line and the enhanced  *)
(* chart's title show it as 0.27.                                           *)
(***************************************************************************)
ShownVelocities ==
    UNION {{r.report.velocity[i] : i \in 1..Len(r.report.velocity)} : r \in Reports}

\* |15 * x - 4| <= 2^-51, exactly
NearFourFifteenths(x) ==
    /\ x.sign = 0
    /\ x.exp <= -51
    /\ BNCmp(AbsDiff(BNMulSmall(x.man, 15), BNShl(BNOfInt(4), -x.exp)),
             BNShl(<<1>>, -51 - x.exp)) <= 0

C3_Velocity ==
    ShownVelocities # {} =>
        /\ sprint_days = days_between(PyIndex(dates, -1), PyIndex(dates, 0)) + 1
        /\ sprint_days = Len(dates)
        /\ sprint_days = 15
        /\ total_tasks = 4
        /\ NearFourFifteenths(velocity)
        /\ ShownVelocities = {[neg |-> FALSE, whole |-> 0, frac |-> 27]}

\* the velocity is on the console and in the saved enhanced chart's title
C3_Witness ==
    /\ \E i \in 1..Len(console) : console[i].report.velocity # <<>>
    /\ \E c \in files[EnhancedPng] : c.fig.title.velocity # <<>>

(***************************************************************************)
(* C4.  Wherever a completion rate is reported (console line, chart title,  *)
(* status box, velocity bar label) it is completed / total * 100, where     *)
(* completed is the first actual count minus the last and total the         *)
(* starting count; it reads 100, and the counts shown beside it are 4 of 4. *)
(***************************************************************************)
C4_RateIsCompletedOverTotal ==
    \A r \in Reports :
        LET a == DatasetOf(r.by).actual
        IN  /\ r.report.rate # <<>> =>
                 /\ r.report.rate[1] * PyIndex(a, 0) = (PyIndex(a, 0) - PyIndex(a, -1)) * 100
                 /\ r.report.rate[1] = 100
            /\ r.report.completed # <<>> =>
                 r.report.completed[1] = PyIndex(a, 0) - PyIndex(a, -1)
            /\ r.report.total # <<>> =>
                 /\ r.report.total[1] = PyIndex(a, 0)
                 /\ r.by = "generate_burndown_charts.py" => r.report.total[1] = total_tasks

\* a rate on the console, in a saved title, in a saved box and on a saved bar
C4_Witness ==
    /\ \E i \in 1..Len(console) : console[i].report.rate # <<>>
    /\ \E c \in Stored : c.fig.title.rate # <<>>
    /\ \E c \in Stored : c.fig.box.rate # <<>>
    /\ \E c \in Stored : c.fig.labels # <<>>

(***************************************************************************)
(* C5.  The actual-remaining series of both scripts is non-increasing, and  *)
(* once it reaches 0 it stays 0.                                            *)
(***************************************************************************)
WithActual == {d \in Drawn : d.fig.actual # <<>>}

C5_NonIncreasing ==
    \A d \in WithActual :
        /\ Len(d.fig.actual) = 15
        /\ \A i \in 0..13 : PyIndex(d.fig.actual, i + 1) <= PyIndex(d.fig.actual, i)
        /\ \A i \in 0..14 : \A j \in i..14 :
             PyIndex(d.fig.actual, i) = 0 => PyIndex(d.fig.actual, j) = 0

C5_Witness ==
    /\ \E d \in WithActual : d.by = "generate_burndown.py"
    /\ \E d \in WithActual : d.by = "generate_burndown_charts.py"

(***************************************************************************)
(* C6.  The sprint record is well formed in both scripts: each date is one  *)
(* calendar day after the one before, from 2026-02-04 through 2026-02-18,   *)
(* every count is a non-negative integer, there are 15 dates and 15         *)
(* counts, and the two scripts hold the same dataset.                       *)
(***************************************************************************)
C6_WellFormedRecord ==
    /\ \A d \in WithActual :
         /\ Len(d.fig.x) = 15
         /\ Len(d.fig.actual) = 15
         /\ PyIndex(d.fig.x, 0) = [year |-> 2026, month |-> 2, day |-> 4]
         /\ PyIndex(d.fig.x, -1) = [year |-> 2026, month |-> 2, day |-> 18]
         /\ \A i \in 0..13 :
              days_between(PyIndex(d.fig.x, i + 1), PyIndex(d.fig.x, i)) = 1
         /\ \A i \in 0..14 : PyIndex(d.fig.actual, i) \in Nat
    /\ \A d1 \in WithActual : \A d2 \in WithActual :
         d1.fig.x = d2.fig.x /\ d1.fig.actual = d2.fig.actual
    /\ WithActual # {} =>
         dates_str = sprint0_dates_str /\ actual_remaining = sprint0_actual_remaining

\* charts of both scripts are on disk together
C6_Witness ==
    /\ \E c \in files[VelocityPng] : c.by = "generate_burndown.py"
    /\ \E c \in files[BurndownPng] : c.by = "generate_burndown_charts.py"
    /\ \E d \in WithActual : d.by = "generate_burndown.py"
    /\ \E d \in WithActual : d.by = "generate_burndown_charts.py"

(***************************************************************************)
(* C10.  The "3 days early" shown by both scripts (title and status box of  *)
(* generate_burndown.py, console line of generate_burndown_charts.py) is    *)
(* the number of calendar days from the completion date, the first date     *)
(* with zero remaining tasks, to the sprint's last date.                    *)
(***************************************************************************)
C10_DaysEarly ==
    \A r \in Reports :
        r.report.days_early # <<>> =>
            LET ds == DatasetOf(r.by)
            IN  /\ IsFirstZero(ds.actual, 11)
                /\ r.report.days_early[1]
                     = days_between(PyIndex(ds.x, -1), PyIndex(ds.x, 11))
                /\ r.report.days_early[1] = 14 - 11
                /\ r.by = "generate_burndown_charts.py" =>
                     /\ r.report.dates = <<PyIndex(ds.x, 11)>>
                     /\ r.report.days_early[1]
                          = days_between(sprint_end, r.report.dates[1])
                /\ r.by = "generate_burndown.py" =>
                     \A d \in Drawn :
                        (d.by = r.by /\ d.fig.x = r.x) =>
                            /\ d.fig.vlines = <<PyIndex(ds.x, 11)>>
                            /\ r.report.days_early[1]
                                 = days_between(PyIndex(d.fig.x, -1), d.fig.vlines[1])

\* the figure is shown by both scripts: in a saved title and on the console
C10_Witness ==
    /\ \E c \in files[BurndownPng] : c.fig.title.days_early # <<>>
    /\ \E i \in 1..Len(console) : console[i].report.days_early # <<>>

(***************************************************************************)
(* The output paths each script documents, and the line each chart prints   *)
(* when it has been saved.                                                  *)
(***************************************************************************)
OutputPaths(s) ==
    IF s = "generate_burndown.py"
    THEN {BurndownPng, BurndownPdf, VelocityPng, VelocityPdf}
    ELSE {BurndownPng, BurndownPdf, EnhancedPng, EnhancedPdf}

ChartMessages ==
    {[text |-> "Sprint 0 burndown chart created successfully!", paths |-> {BurndownPng, BurndownPdf}],
     [text |-> "Velocity chart created successfully!", paths |-> {VelocityPng, VelocityPdf}],
     [text |-> "Standard burndown chart created:", paths |-> {BurndownPng, BurndownPdf}],
     [text |-> "Enhanced burndown chart created:", paths |-> {EnhancedPng, EnhancedPdf}]}

Printed == {console[i].text : i \in 1..Len(console)}

AllDone == "All charts generated successfully!"

(***************************************************************************)
(* C7.  Every output path holds exactly the content written by the most     *)
(* recent run that wrote it, and nothing from an earlier run; after a       *)
(* completed run the paths of that script, sprint0_burndown.png and .pdf    *)
(* among them, hold that run's charts; a run of generate_burndown_charts.py *)
(* leaves velocity_sprint0.* unchanged and a run of generate_burndown.py    *)
(* leaves sprint0_burndown_enhanced.* unchanged.                            *)
(***************************************************************************)
C7_LastWriterOnly ==
    /\ \A p \in Paths :
         /\ Cardinality(files[p]) <= 1
         /\ files[p] = {} <=> lastSave[p].run = 0
         /\ \A c \in files[p] :
              /\ c.by = lastSave[p].script
              /\ c.run = lastSave[p].run
              /\ [script |-> c.by, run |-> c.run, path |-> p, fig |-> c.fig] \in produced
    /\ status = "done" =>
         \A p \in OutputPaths(script) : \E c \in files[p] : c.by = script /\ c.run = run

C7_Frame ==
    /\ (status = "running" /\ script = "generate_burndown_charts.py") =>
         files'[VelocityPng] = files[VelocityPng] /\ files'[VelocityPdf] = files[VelocityPdf]
    /\ (status = "running" /\ script = "generate_burndown.py") =>
         files'[EnhancedPng] = files[EnhancedPng] /\ files'[EnhancedPdf] = files[EnhancedPdf]
    /\ status # "running" => files' = files
    /\ \A p \in Paths : files'[p] # files[p] => p \in OutputPaths(script)

C7_Overwrite == [][C7_Frame /\ C7_LastWriterOnly']_vars

\* generate_burndown_charts.py has completed after generate_burndown.py: the
\* shared path holds the later run's chart, the velocity chart the earlier's
C7_Witness ==
    /\ status = "done" /\ script = "generate_burndown_charts.py"
    /\ \E c \in files[VelocityPdf] : c.by = "generate_burndown.py" /\ c.run < run
    /\ \E c \in files[BurndownPdf] : c.by = script /\ c.run = run
    /\ \E q \in produced : q.path = BurndownPdf /\ q.script = "generate_burndown.py"

(***************************************************************************)
(* C8.  A failed save ends the run at that step: it is not retried, no      *)
(* later save is made, nothing more is printed, so neither the chart's own  *)
(* success line nor the final "All charts generated successfully!"; that    *)
(* final line is printed only in runs that wrote every PNG and PDF of the   *)
(* script.  Files written earlier in the failed run stay in place.          *)
(***************************************************************************)
C8_State ==
    /\ AllDone \in Printed => written = OutputPaths(script) /\ status # "failed"
    /\ \A m \in ChartMessages : m.text \in Printed => m.paths \subseteq written
    /\ \A p \in written : \E c \in files[p] : c.by = script /\ c.run = run

C8_Step ==
    /\ (status = "failed" /\ run' = run) =>
          /\ status' = "failed"
          /\ files' = files /\ console' = console /\ written' = written /\ todo' = todo
    /\ (status = "running" /\ status' = "failed") =>
          files' = files /\ console' = console /\ written' = written

C8_FailedSaveEndsRun == [][C8_Step /\ C8_State']_vars

\* a save has failed after an earlier save of the same run succeeded
C8_Witness ==
    /\ status = "failed"
    /\ todo # <<>> /\ Head(todo).op = "savefig"
    /\ written # {}
    /\ \A p \in written : \E c \in files[p] : c.run = run

(***************************************************************************)
(* C9.  A successful run writes a PNG and a PDF at each output path of its  *)
(* script, and the run is deterministic: whatever a script saves at a path  *)
(* is the same figure (dates, actual and ideal series, markers, title) in   *)
(* every run, whatever the state of the directory.                          *)
(***************************************************************************)
FormatOf(p) ==
    IF p \in {BurndownPng, VelocityPng, EnhancedPng} THEN "png" ELSE "pdf"

==========================================================================
